---- MODULE Spec2Model ----
(***************************************************************************)
(* Model of convert_to_obsidian.py: the conversion of a directory of       *)
(* Zettelkasten notes ("<ID> <Title>.md") into notes with a YAML front      *)
(* matter.  Text is modelled character by character: a string is a         *)
(* sequence of one-character strings, so that the regular expressions,     *)
(* the newline translation of text-mode reads and the splitting into lines *)
(* are computed as the interpreter computes them.                          *)
(***************************************************************************)
EXTENDS Integers, Sequences, FiniteSets, TLC

(***************************************************************************)
(* Character classes of the regular expressions (the part of \d, \s and \w *)
(* that the inputs below use).                                             *)
(***************************************************************************)
Digit == {"0","1","2","3","4","5","6","7","8","9"}

Whitespace == {" ", "\t", "\n", "\r", "\f"}

Letter ==
    {"a","b","c","d","e","f","g","h","i","j","k","l","m","n","o","p","q","r",
     "s","t","u","v","w","x","y","z","A","B","C","D","E","F","G","H","I","J",
     "K","L","M","N","O","P","Q","R","S","T","U","V","W","X","Y","Z"}

WordChar == Digit \cup Letter \cup {"_"}

\* The characters at which str.splitlines ends a line ("\r\n" counts once).
LineBreak == {"\n", "\r", "\f"}

\* A byte that is not valid UTF-8 (0xff never occurs in UTF-8).
BadByte == "0xff"

\* The number of digits of an id the link pattern accepts.
IdLen == 12

(***************************************************************************)
(* String helpers: str.startswith, str.endswith, slicing, str.strip.       *)
(***************************************************************************)
StartsWith(s, p) == Len(s) >= Len(p) /\ SubSeq(s, 1, Len(p)) = p

EndsWith(s, p) == Len(s) >= Len(p) /\ SubSeq(s, Len(s) - Len(p) + 1, Len(s)) = p

Drop(s, n) == SubSeq(s, n + 1, Len(s))

\* The least and the greatest element of a non-empty set of integers.
Min(S) == CHOOSE x \in S : \A y \in S : x <= y

Max(S) == CHOOSE x \in S : \A y \in S : x >= y

\* The number of characters of s from position i on that lie in class c: the
\* length of a greedy run of the class.
Run(s, i, c) ==
    CHOOSE k \in 0..Len(s) :
       /\ \A j \in i..i + k - 1 : j <= Len(s) /\ s[j] \in c
       /\ i + k > Len(s) \/ s[i + k] \notin c

\* The number of characters at the end of s, up to position i, in class c.
RunBack(s, i, c) ==
    CHOOSE k \in 0..Len(s) :
       /\ \A j \in i - k + 1..i : j >= 1 /\ s[j] \in c
       /\ i - k < 1 \/ s[i - k] \notin c

strip(s) ==
    LET a == Run(s, 1, Whitespace)
        b == RunBack(s, Len(s), Whitespace)
    IN  IF a = Len(s) THEN << >> ELSE SubSeq(s, a + 1, Len(s) - b)

\* The position of the first occurrence of character ch in s from i on, or 0.
Find(s, i, ch) ==
    LET hits == {j \in i..Len(s) : s[j] = ch}
    IN  IF hits = {} THEN 0 ELSE Min(hits)

\* The position of the last occurrence of character ch in s up to i, or 0.
RFind(s, i, ch) ==
    LET hits == {j \in 1..i : s[j] = ch}
    IN  IF hits = {} THEN 0 ELSE Max(hits)

\* L.split(":", 1)[1] for a line that holds a colon.
AfterColon(L) == Drop(L, Find(L, 1, ":"))

(***************************************************************************)
(* pathlib: Path.stem, and the matching of the two glob patterns.          *)
(***************************************************************************)
DotMd == <<".", "m", "d">>

\* Path.stem: the name without its last suffix; a leading or a final dot
\* starts no suffix.
Path_stem(name) ==
    LET i == RFind(name, Len(name), ".")
    IN  IF i > 1 /\ i < Len(name) THEN SubSeq(name, 1, i - 1) ELSE name

\* in_dir.glob("*.md")
MatchesMd(name) == EndsWith(name, DotMd)

\* input_dir.glob(f"{link_id}*.md")
MatchesIdMd(name, link_id) ==
    StartsWith(name, link_id) /\ EndsWith(Drop(name, Len(link_id)), DotMd)

(***************************************************************************)
(* parse_filename: a match of digits, whitespace, rest at the start of the *)
(* stem (one or more digits, one or more blanks).  The digit run and the   *)
(* whitespace run are greedy and their classes are disjoint, so the match  *)
(* is unique; "." stops at a newline.                                      *)
(***************************************************************************)
parse_filename(name) ==
    LET stem == Path_stem(name)
        d    == Run(stem, 1, Digit)
        w    == Run(stem, d + 1, Whitespace)
        rest == Drop(stem, d + w)
        nl   == Find(rest, 1, "\n")
    IN  IF d >= 1 /\ w >= 1
        THEN [ok |-> TRUE, id |-> SubSeq(stem, 1, d),
              title |-> IF nl = 0 THEN rest ELSE SubSeq(rest, 1, nl - 1)]
        ELSE [ok |-> FALSE, id |-> << >>, title |-> << >>]

(***************************************************************************)
(* The metadata dict, insertion ordered: a sequence of entries.  A value   *)
(* is a list of strings; a scalar is a list of one string of kind "str".   *)
(***************************************************************************)
Scalar(k, v) == [key |-> k, kind |-> "str", val |-> <<v>>]

List(k, vs) == [key |-> k, kind |-> "list", val |-> vs]

HasKey(md, k) == \E i \in 1..Len(md) : md[i].key = k

\* md[k] = v: an existing key keeps its place, a new key goes last.
DictSet(md, e) ==
    IF HasKey(md, e.key)
    THEN [i \in 1..Len(md) |-> IF md[i].key = e.key THEN e ELSE md[i]]
    ELSE Append(md, e)

\* A faulty setdefault, which overwrites the value of an existing key.
DictSetDefault_overwrite(md, e) == DictSet(md, e)

\* md.setdefault(k, v)
DictSetDefault(md, e) == IF HasKey(md, e.key) THEN md ELSE Append(md, e)

DictGet(md, k) == md[CHOOSE i \in 1..Len(md) : md[i].key = k]

Keys(md) == [i \in 1..Len(md) |-> md[i].key]

(***************************************************************************)
(* Path.read_text(encoding="utf-8"): the bytes are decoded (a byte that is *)
(* no UTF-8 raises UnicodeDecodeError, a subclass of ValueError) and, the  *)
(* file being opened in text mode with the default newline=None, every     *)
(* "\r\n" and every lone "\r" is translated to "\n".                       *)
(***************************************************************************)
Decodable(bytes) == \A i \in 1..Len(bytes) : bytes[i] # BadByte

\* "".join(lines)
RECURSIVE Join(_)
Join(lines) == IF lines = << >> THEN << >> ELSE Head(lines) \o Join(Tail(lines))

\* The carriage return at position i is the first half of a "\r\n".
IsCrOfCrLf(b, i) == b[i] = "\r" /\ i < Len(b) /\ b[i + 1] = "\n"

\* Universal newlines: the carriage return of a "\r\n" is dropped and every
\* other carriage return becomes a "\n".
TranslateNewlines(b) ==
    LET marked == [i \in 1..Len(b) |->
                     IF IsCrOfCrLf(b, i) THEN "dropped"
                     ELSE IF b[i] = "\r" THEN "\n" ELSE b[i]]
    IN  SelectSeq(marked, LAMBDA ch : ch # "dropped")

read_text(bytes) == TranslateNewlines(bytes)

\* Path.write_text(text, encoding="utf-8") on a POSIX system: every "\n" is
\* written as os.linesep, which is "\n" there, and every other character as
\* its UTF-8 bytes, so the bytes written are the characters of the text.
write_text(text) == text

(***************************************************************************)
(* str.splitlines(keepends=True)                                           *)
(***************************************************************************)
\* The position of the last character of the line that starts at i: the
\* first line boundary from i on that is not the first half of a "\r\n", or
\* the end of the text.
LineEnd(t, i) ==
    Min({j \in i..Len(t) : t[j] \in LineBreak /\ ~IsCrOfCrLf(t, j)} \cup {Len(t)})

RECURSIVE SplitFrom(_, _)
SplitFrom(t, i) ==
    IF i > Len(t) THEN << >>
    ELSE LET e == LineEnd(t, i) IN <<SubSeq(t, i, e)>> \o SplitFrom(t, e + 1)

splitlines(t) == SplitFrom(t, 1)

(***************************************************************************)
(* parse_metadata                                                          *)
(***************************************************************************)
LabelTitle == <<"T","i","t","l","e",":">>

LabelDate == <<"D","a","t","e",":">>

LabelKeywords == <<"K","e","y","w","o","r","d","s",":">>

\* re.findall of a hash sign followed by one or more word characters, from
\* position i on: the word after each hash sign, left to right.
RECURSIVE FindTags(_, _)
FindTags(L, i) ==
    LET hits == {j \in i..Len(L) : L[j] = "#" /\ Run(L, j + 1, WordChar) >= 1}
    IN  IF hits = {} THEN << >>
        ELSE LET j == Min(hits)
                 n == Run(L, j + 1, WordChar)
             IN  <<SubSeq(L, j + 1, j + n)>> \o FindTags(L, j + n + 1)

\* A faulty loop without the break at the Keywords line: it scans to the end,
\* and the last Keywords line sets body_start.
RECURSIVE ScanMetadata_nobreak(_, _, _)
ScanMetadata_nobreak(lines, i, md) ==
    IF i > Len(lines) THEN [md |-> md, body_start |-> 0]
    ELSE LET L == lines[i]
         IN  IF StartsWith(L, LabelTitle)
             THEN ScanMetadata_nobreak(lines, i + 1,
                                       DictSet(md, Scalar("title", strip(AfterColon(L)))))
             ELSE IF StartsWith(L, LabelDate)
             THEN ScanMetadata_nobreak(lines, i + 1,
                                       DictSet(md, Scalar("date", strip(AfterColon(L)))))
             ELSE IF StartsWith(L, LabelKeywords)
             THEN LET r == ScanMetadata_nobreak(lines, i + 1,
                                                DictSet(md, List("tags", FindTags(L, 1))))
                  IN  [md |-> r.md,
                       body_start |-> IF r.body_start = 0 THEN i ELSE r.body_start]
             ELSE ScanMetadata_nobreak(lines, i + 1, md)

\* The loop over enumerate(lines) from line i on, md being the dict so far:
\* the dict and body_start when the loop ends or breaks.
RECURSIVE ScanMetadata(_, _, _)
ScanMetadata(lines, i, md) ==
    IF i > Len(lines) THEN [md |-> md, body_start |-> 0]
    ELSE LET L == lines[i]
         IN  IF StartsWith(L, LabelTitle)
             THEN ScanMetadata(lines, i + 1,
                               DictSet(md, Scalar("title", strip(AfterColon(L)))))
             ELSE IF StartsWith(L, LabelDate)
             THEN ScanMetadata(lines, i + 1,
                               DictSet(md, Scalar("date", strip(AfterColon(L)))))
             ELSE IF StartsWith(L, LabelKeywords)
             THEN [md |-> DictSet(md, List("tags", FindTags(L, 1))),
                   body_start |-> i]
             ELSE ScanMetadata(lines, i + 1, md)

\* body_start counts from 0 in the code and lines[body_start:] is the body;
\* here lines count from 1, so body_start is the index of the Keywords line.
parse_metadata(lines) ==
    LET r == ScanMetadata(lines, 1, << >>)
    IN  [md |-> r.md, body |-> Drop(lines, r.body_start)]

(***************************************************************************)
(* build_frontmatter: yaml.safe_dump(md, sort_keys=False) between two      *)
(* marker lines.  The YAML block is kept structured: one entry per key, in *)
(* the order of the dict, a list value as the sequence of its items.       *)
(***************************************************************************)
Marker == [key |-> "---", kind |-> "marker", val |-> << >>]

\* The block mapping safe_dump emits: the entries of md in dict order.
safe_dump(md) ==
    [i \in 1..Len(md) |-> [key |-> md[i].key, kind |-> md[i].kind, val |-> md[i].val]]

build_frontmatter(md) == <<Marker>> \o safe_dump(md) \o <<Marker>>

(***************************************************************************)
(* The link rewriter of convert_note.                                      *)
(***************************************************************************)
\* s holds p at position i.
At(s, i, p) == i + Len(p) - 1 <= Len(s) /\ \A k \in 1..Len(p) : s[i + k - 1] = p[k]

Open2 == <<"[", "[">>

Close2 == <<"]", "]">>

WordBacklink == <<"B","a","c","k","l","i","n","k">>

\* A faulty backlink pattern without the anchor at the end of the line.
backlink_match_unanchored(line) ==
    LET p1 == 1 + Run(line, 1, Whitespace)
        p2 == p1 + Len(WordBacklink)
        p3 == IF At(line, p2, <<"s">>) THEN p2 + 1 ELSE p2
        p4 == p3 + 1 + Run(line, p3 + 1, Whitespace)
        d  == Run(line, p4 + 2, Digit)
        p5 == p4 + 2 + d
    IN  /\ At(line, p1, WordBacklink)
        /\ At(line, p3, <<":">>)
        /\ At(line, p4, Open2)
        /\ d >= 1
        /\ At(line, p5, Close2)

\* backlink_pattern.match(line): blanks, the word Backlink, an optional s, a
\* colon, blanks, two opening brackets, one or more digits, two closing
\* brackets, blanks, end of the line.  Every run is greedy and is followed by
\* a character outside its class, so the match is decided left to right; the
\* final anchor holds at the end of the string, which the last run of blanks
\* reaches exactly when only blanks (the line terminator among them) follow.
backlink_match(line) ==
    LET p1 == 1 + Run(line, 1, Whitespace)
        p2 == p1 + Len(WordBacklink)
        p3 == IF At(line, p2, <<"s">>) THEN p2 + 1 ELSE p2
        p4 == p3 + 1 + Run(line, p3 + 1, Whitespace)
        d  == Run(line, p4 + 2, Digit)
        p5 == p4 + 2 + d
        p6 == p5 + 2 + Run(line, p5 + 2, Whitespace)
    IN  /\ At(line, p1, WordBacklink)
        /\ At(line, p3, <<":">>)
        /\ At(line, p4, Open2)
        /\ d >= 1
        /\ At(line, p5, Close2)
        /\ p6 = Len(line) + 1

\* body = [line for line in body if not backlink_pattern.match(line)]
strip_backlinks(body) == SelectSeq(body, LAMBDA line : ~backlink_match(line))

\* input_dir.glob(f"{link_id}*.md") over the directory listing, in its order.
glob_id(listing, link_id) == SelectSeq(listing, LAMBDA n : MatchesIdMd(n, link_id))

\* resolve_id_link: the stem of the first entry the glob yields, else the id.
resolve_id_link(link_id, listing) ==
    LET hits == glob_id(listing, link_id)
    IN  IF hits # << >> THEN Path_stem(Head(hits)) ELSE link_id

\* The link pattern matches at position i: two opening brackets, exactly
\* IdLen digits, two closing brackets.
LinkAt(t, i) ==
    /\ At(t, i, Open2)
    /\ Run(t, i + 2, Digit) >= IdLen
    /\ At(t, i + 2 + IdLen, Close2)

\* replace_id_link(match)
replace_id_link(link_id, listing) ==
    LET full_filename == resolve_id_link(link_id, listing)
    IN  IF full_filename # link_id
        THEN Open2 \o full_filename \o <<"|">> \o link_id \o Close2
        ELSE Open2 \o link_id \o Close2

\* re.sub(link pattern, replace_id_link, body_text) from position i on: the
\* matches are taken left to right and do not overlap.
RECURSIVE SubLinks(_, _, _)
SubLinks(t, i, listing) ==
    LET hits == {j \in i..Len(t) : LinkAt(t, j)}
    IN  IF hits = {} THEN SubSeq(t, i, Len(t))
        ELSE LET j == Min(hits)
             IN  SubSeq(t, i, j - 1)
                 \o replace_id_link(SubSeq(t, j + 2, j + 1 + IdLen), listing)
                 \o SubLinks(t, j + IdLen + 4, listing)

(***************************************************************************)
(* convert_note(in_path, out_path).  A file of the input directory is a    *)
(* record [bytes, readable]; a file of the output directory is a record    *)
(* [type, fm, text]: the front matter block and the text after it.         *)
(***************************************************************************)
\* A faulty merge that sets the default title before the id.
note_md_title_first(file_id, file_title, scanned) ==
    DictSet(DictSet(DictSetDefault(scanned, Scalar("title", file_title)),
                    Scalar("id", file_id)),
            List("aliases", <<file_id>>))

\* The metadata of the note: lines 121 to 125.
note_md(file_id, file_title, scanned) ==
    DictSet(DictSetDefault(DictSet(scanned, Scalar("id", file_id)),
                           Scalar("title", file_title)),
            List("aliases", <<file_id>>))

\* The text of the body after the two transforms: lines 127 to 142.
note_body(body, listing) == SubLinks(Join(strip_backlinks(body)), 1, listing)

NoteFile(md, body_text) ==
    [type |-> "note", fm |-> build_frontmatter(md),
     text |-> write_text(<<"\n">> \o body_text)]

RawFile(bytes) == [type |-> "raw", fm |-> << >>, text |-> bytes]

NoFile == [type |-> "none", fm |-> << >>, text |-> << >>]

\* The outcome of convert_note on the file of that name: the exception it
\* raises, if any, and the file it writes.
convert_note(name, file, listing) ==
    LET pf == parse_filename(name)
    IN  IF ~pf.ok THEN [raised |-> "ValueError", out |-> NoFile]
        ELSE IF ~file.readable THEN [raised |-> "OSError", out |-> NoFile]
        ELSE IF ~Decodable(file.bytes) THEN [raised |-> "ValueError", out |-> NoFile]
        ELSE LET lines == splitlines(read_text(file.bytes))
                 pm    == parse_metadata(lines)
             IN  [raised |-> "none",
                  out |-> NoteFile(note_md(pf.id, pf.title, pm.md),
                                   note_body(pm.body, listing))]

(***************************************************************************)
(* The inputs: file names, lines and files the runs are checked on.        *)
(***************************************************************************)
ID_A ==
    <<"2","0","2","5","0","4","2","1","1","5","5","9">>

N_Note ==
    <<"2","0","2","5","0","4","2","1","1","5","5","9"," ","M","y"," ","N","o","t","e",".","m","d">>

N_Bare ==
    <<"2","0","2","5","0","4","2","1","1","5","5","9",".","m","d">>

N_Old ==
    <<"2","0","2","5","0","4","2","1","1","5","5","9"," ","o","l","d",".","t","x","t">>

N_Short ==
    <<"7"," ","x",".","m","d">>

Names == {N_Note, N_Bare, N_Old, N_Short}

L_Title ==
    <<"T","i","t","l","e",":"," ","F","o","o">>

L_Date ==
    <<"D","a","t","e",":"," ","2","0","2","4","-","0","1","-","0","1">>

L_Keywords ==
    <<"K","e","y","w","o","r","d","s",":"," ","#","a"," ","#","b">>

L_Backlinks ==
    <<"B","a","c","k","l","i","n","k","s",":"," ","[","[","2","0","2","5","0","4","2","1","1","5","5","9","]","]">>

L_BacklinkWs ==
    <<"\t","B","a","c","k","l","i","n","k",":","[","[","7","]","]"," ">>

L_BacklinksExtra ==
    <<"B","a","c","k","l","i","n","k","s",":"," ","[","[","2","0","2","5","0","4","2","1","1","5","5","9","]","]"," ","e","x","t","r","a"," ","t","e","x","t">>

L_Links ==
    <<"[","[","2","0","2","5","0","4","2","1","1","5","5","9","]","]"," ","[","[","2","0","2","5","0","4","2","1","1","5","5","]","]"," ","[","[","2","0","2","5","0","4","2","1","1","5","5","9","0","]","]">>

L_lower ==
    <<"b","a","c","k","l","i","n","k","s",":"," ","[","[","7","]","]">>

LinePool ==
    {L_Title, L_Date, L_Keywords, L_Backlinks, L_BacklinkWs, L_BacklinksExtra,
     L_Links, L_lower}

LF == <<"\n">>

CRLF == <<"\r", "\n">>

\* The most lines a generated note holds, the most entries a directory of the
\* driver runs holds, and the most runs of main in a row.
MaxLines == 3

MaxFiles == 2

MaxRuns == 2

\* The bytes of a file of the given lines, each ended by eol.
RECURSIVE FileBytes(_, _)
FileBytes(ls, eol) ==
    IF ls = << >> THEN << >> ELSE Head(ls) \o eol \o FileBytes(Tail(ls), eol)

Contents == UNION {[1..n -> LinePool] : n \in 0..MaxLines}

\* Sequences of distinct names, at most n long: the directory listings.
Listings(n) ==
    {l \in UNION {[1..k -> Names] : k \in 0..n} :
        \A i, j \in 1..Len(l) : i # j => l[i] # l[j]}

Range(f) == {f[x] : x \in DOMAIN f}

\* The files of the driver runs: a note, a file that is no UTF-8, and a file
\* the process may not read.
F_Note ==
    [bytes |-> FileBytes(<<L_Title, L_Keywords, L_Backlinks, L_Links>>, LF),
     readable |-> TRUE]

F_Bad == [bytes |-> <<"a", BadByte, "\n">>, readable |-> TRUE]

F_Locked == [bytes |-> FileBytes(<<L_lower>>, LF), readable |-> FALSE]

FilePool == {F_Note, F_Bad, F_Locked}

\* How the output path lies to the input path.
Rels == {"disjoint", "same", "outContainsIn", "outInsideIn"}

\* The directory listings of the single-note runs: a link target present, a
\* target whose stem is the bare id, and no target but an entry of another
\* extension.  (The driver runs list every combination, in every order.)
NoteDirs ==
    {<<N_Note, N_Short>>, <<N_Bare, N_Short>>, <<N_Old, N_Short>>}

(***************************************************************************)
(* The state.                                                              *)
(***************************************************************************)
VARIABLES
    listing,    \* the entries of the input directory, in listing order
    data,       \* the file of each entry of the input directory
    inMedia,    \* the media subdirectory of the input directory, or "absent"
    rel,        \* how the output path lies to the input path
    outExists,  \* the output directory exists
    outFiles,   \* the files of the output directory, each with the run that wrote it
    outMedia,   \* the media subdirectory of the output directory, or "absent"
    pc,         \* where the run stands
    todo,       \* the entries the loop of main has still to visit
    log,        \* the progress records printed by this run
    run,        \* the number of this run of main
    snap,       \* the input directory when this run began, and the previous run
    cur,        \* the file convert_note is called on (single-note runs)
    md,         \* convert_note: the dict parse_metadata returned
    body        \* convert_note: the body lines parse_metadata returned

vars ==
    <<listing, data, inMedia, rel, outExists, outFiles, outMedia, pc, todo, log,
      run, snap, cur, md, body>>

EmptyDir == [n \in {} |-> NoFile]

InDir == [listing |-> listing, data |-> data, media |-> inMedia]

OutDir == [files |-> [n \in DOMAIN outFiles |->
                         [type |-> outFiles[n].type, fm |-> outFiles[n].fm,
                          text |-> outFiles[n].text]],
           media |-> outMedia]

Stamp(f, r) == [type |-> f.type, fm |-> f.fm, text |-> f.text, run |-> r]

\* A file the output directory holds from before the first run.
StaleFile == Stamp(RawFile(<<"o", "l", "d", "\n">>), 0)

(***************************************************************************)
(* main(in_dir, out_dir): runs of the driver over a directory.             *)
(***************************************************************************)
Init ==
    /\ listing \in Listings(MaxFiles)
    /\ data \in [Range(listing) -> FilePool]
    /\ inMedia \in {"absent", "media"}
    /\ rel \in Rels
    /\ \E stale \in BOOLEAN :
        /\ outExists = (stale \/ rel \in {"same", "outContainsIn"})
        /\ outFiles =
              IF rel = "same"
              THEN [n \in Range(listing) |-> Stamp(RawFile(data[n].bytes), 0)]
              ELSE IF stale THEN (N_Note :> StaleFile) ELSE EmptyDir
        /\ outMedia =
              IF rel = "same" THEN inMedia ELSE IF stale THEN "stale" ELSE "absent"
    /\ pc = "start"
    /\ todo = << >>
    /\ log = << >>
    /\ run = 1
    /\ snap = [in0 |-> InDir, prevIn |-> InDir, prevOut |-> OutDir]
    /\ cur = << >>
    /\ md = << >>
    /\ body = << >>

\* A faulty preparation that keeps an existing output directory as it is.
rmtree_skipped(files) == files

\* Lines 157 to 159: shutil.rmtree(out_dir) when it exists, then mkdir.  The
\* input directory goes with the output directory when it is the output
\* directory or lies inside it.
rmtree_mkdir(files) == EmptyDir

Prepare ==
    /\ pc = "start"
    /\ outExists' = TRUE
    /\ outFiles' = IF outExists THEN rmtree_mkdir(outFiles) ELSE EmptyDir
    /\ outMedia' = "absent"
    /\ IF outExists /\ rel \in {"same", "outContainsIn"}
       THEN listing' = << >> /\ data' = EmptyDir /\ inMedia' = "absent"
       ELSE UNCHANGED <<listing, data, inMedia>>
    /\ pc' = "media"
    /\ UNCHANGED <<rel, todo, log, run, snap, cur, md, body>>

\* in_dir.glob("*.md"): the entries of the listing that match, in its order.
glob_md(l) == SelectSeq(l, MatchesMd)

\* Lines 162 to 165, and the listing the loop of line 167 then starts from.
CopyMedia ==
    /\ pc = "media"
    /\ inMedia # "absent"
    /\ outMedia' = inMedia
    /\ log' = Append(log, <<"Copied media directory", << >> >>)
    /\ todo' = glob_md(listing)
    /\ pc' = "loop"
    /\ UNCHANGED <<listing, data, inMedia, rel, outExists, outFiles, run, snap,
                   cur, md, body>>

SkipMedia ==
    /\ pc = "media"
    /\ inMedia = "absent"
    /\ todo' = glob_md(listing)
    /\ pc' = "loop"
    /\ UNCHANGED <<listing, data, inMedia, rel, outExists, outFiles, outMedia,
                   log, run, snap, cur, md, body>>

\* Lines 169 and 170: convert_note returns.
Converted ==
    /\ pc = "loop"
    /\ todo # << >>
    /\ LET f == Head(todo)
           r == convert_note(f, data[f], listing)
       IN  /\ r.raised = "none"
           /\ outFiles' = [n \in DOMAIN outFiles \cup {f} |->
                             IF n = f THEN Stamp(r.out, run) ELSE outFiles[n]]
           /\ log' = Append(log, <<"Converted", f>>)
    /\ todo' = Tail(todo)
    /\ UNCHANGED <<listing, data, inMedia, rel, outExists, outMedia, pc, run,
                   snap, cur, md, body>>

\* Lines 171 to 174: convert_note raises a ValueError and shutil.copy2 copies
\* the file.
Copied ==
    /\ pc = "loop"
    /\ todo # << >>
    /\ LET f == Head(todo)
           r == convert_note(f, data[f], listing)
       IN  /\ r.raised = "ValueError"
           /\ data[f].readable
           /\ outFiles' = [n \in DOMAIN outFiles \cup {f} |->
                             IF n = f THEN Stamp(RawFile(data[f].bytes), run)
                             ELSE outFiles[n]]
           /\ log' = Append(log, <<"Copied", f>>)
    /\ todo' = Tail(todo)
    /\ UNCHANGED <<listing, data, inMedia, rel, outExists, outMedia, pc, run,
                   snap, cur, md, body>>

\* An exception leaves main: convert_note raises something that is no
\* ValueError, or shutil.copy2 fails in the handler.
Aborted ==
    /\ pc = "loop"
    /\ todo # << >>
    /\ LET f == Head(todo)
           r == convert_note(f, data[f], listing)
       IN  \/ r.raised = "OSError"
           \/ r.raised = "ValueError" /\ ~data[f].readable
    /\ pc' = "aborted"
    /\ UNCHANGED <<listing, data, inMedia, rel, outExists, outFiles, outMedia,
                   todo, log, run, snap, cur, md, body>>

\* The loop ends and main returns.
Finish ==
    /\ pc = "loop"
    /\ todo = << >>
    /\ pc' = "done"
    /\ UNCHANGED <<listing, data, inMedia, rel, outExists, outFiles, outMedia,
                   todo, log, run, snap, cur, md, body>>

\* main is run again with the same arguments, after it returned or failed.
Rerun ==
    /\ pc \in {"done", "aborted"}
    /\ run < MaxRuns
    /\ run' = run + 1
    /\ snap' = [in0 |-> InDir, prevIn |-> snap.in0, prevOut |-> OutDir]
    /\ log' = << >>
    /\ todo' = << >>
    /\ pc' = "start"
    /\ UNCHANGED <<listing, data, inMedia, rel, outExists, outFiles, outMedia,
                   cur, md, body>>

Next ==
    \/ Prepare
    \/ CopyMedia
    \/ SkipMedia
    \/ Converted
    \/ Copied
    \/ Aborted
    \/ Finish
    \/ Rerun

Spec == Init /\ [][Next]_vars

(***************************************************************************)
(* convert_note on one note of generated content, in two steps: up to the  *)
(* return of parse_metadata, and from there to the written file.  A file   *)
(* whose name the parser rejects is never read, so its content is fixed.   *)
(***************************************************************************)
\* The single-note runs keep no record of earlier directories.
NoSnap ==
    LET none == [listing |-> << >>, data |-> EmptyDir, media |-> "absent"]
    IN  [in0 |-> none, prevIn |-> none,
         prevOut |-> [files |-> EmptyDir, media |-> "absent"]]

InitNote ==
    /\ listing \in NoteDirs
    /\ cur \in {n \in Range(listing) : MatchesMd(n)}
    /\ \E c \in (IF parse_filename(cur).ok THEN Contents ELSE {<<L_Title>>}),
          eol \in {LF, CRLF} :
          data = [n \in Range(listing) |->
                    IF n = cur THEN [bytes |-> FileBytes(c, eol), readable |-> TRUE]
                    ELSE F_Note]
    /\ inMedia = "absent"
    /\ rel = "disjoint"
    /\ outExists = TRUE
    /\ outFiles = EmptyDir
    /\ outMedia = "absent"
    /\ pc = "call"
    /\ todo = << >>
    /\ log = << >>
    /\ run = 1
    /\ snap = NoSnap
    /\ md = << >>
    /\ body = << >>

\* Lines 119 (and 52, 53): parse_filename raises.
NoteRaise ==
    /\ pc = "call"
    /\ ~parse_filename(cur).ok
    /\ pc' = "raised"
    /\ UNCHANGED <<listing, data, inMedia, rel, outExists, outFiles, outMedia,
                   todo, log, run, snap, cur, md, body>>

\* Lines 119 to 121.
NoteParse ==
    /\ pc = "call"
    /\ parse_filename(cur).ok
    /\ data[cur].readable /\ Decodable(data[cur].bytes)
    /\ LET pm == parse_metadata(splitlines(read_text(data[cur].bytes)))
       IN  md' = pm.md /\ body' = pm.body
    /\ pc' = "parsed"
    /\ UNCHANGED <<listing, data, inMedia, rel, outExists, outFiles, outMedia,
                   todo, log, run, snap, cur>>

\* Lines 123 to 145.
NoteWrite ==
    /\ pc = "parsed"
    /\ LET pf == parse_filename(cur)
       IN  outFiles' = [n \in DOMAIN outFiles \cup {cur} |->
                          IF n = cur
                          THEN Stamp(NoteFile(note_md(pf.id, pf.title, md),
                                              note_body(body, listing)), run)
                          ELSE outFiles[n]]
    /\ pc' = "written"
    /\ UNCHANGED <<listing, data, inMedia, rel, outExists, outMedia, todo, log,
                   run, snap, cur, md, body>>

NextNote ==
    \/ NoteRaise
    \/ NoteParse
    \/ NoteWrite

SpecNote == InitNote /\ [][NextNote]_vars

(***************************************************************************)
(* What the properties below speak of, said without the code's operators.  *)
(***************************************************************************)
\* The note convert_note wrote, the entries of its header (without the two
\* marker lines) and the text after the blank separator line.
Written == outFiles[cur]

HeaderEntries(f) == SubSeq(f.fm, 2, Len(f.fm) - 1)

HeaderKeys(f) == Keys(HeaderEntries(f))

HeaderValue(f, k) == DictGet(HeaderEntries(f), k).val

OutBody(f) == Drop(f.text, 1)

\* The lines of the note as convert_note read them.
ReadLines == splitlines(read_text(data[cur].bytes))

\* The name is "<digits><blanks><rest>.md": where its digits end and where
\* its rest begins.
ClaimIdEnd(name) == Max({j \in 0..Len(name) : \A i \in 1..j : name[i] \in Digit})

ClaimRestStart(name) ==
    Min({j \in ClaimIdEnd(name) + 1..Len(name) : name[j] \notin Whitespace})

ClaimConforming(name) ==
    /\ ClaimIdEnd(name) >= 1
    /\ name[ClaimIdEnd(name) + 1] \in Whitespace

ClaimId(name) == SubSeq(name, 1, ClaimIdEnd(name))

ClaimTitle(name) == SubSeq(name, ClaimRestStart(name), Len(name) - Len(DotMd))

\* A double-bracket token of exactly IdLen digits begins at position j of t.
ClaimTokenAt(t, j) ==
    /\ j + IdLen + 3 <= Len(t)
    /\ t[j] = "[" /\ t[j + 1] = "["
    /\ \A k \in 2..IdLen + 1 : t[j + k] \in Digit
    /\ t[j + IdLen + 2] = "]" /\ t[j + IdLen + 3] = "]"

\* The trimmed line is a backlink label followed by a bracketed run of digits.
ClaimBacklink(line) ==
    LET t == strip(line)
    IN  \E lab \in {WordBacklink \o <<"s", ":">>, WordBacklink \o <<":">>} :
          /\ StartsWith(t, lab)
          /\ LET r == strip(Drop(t, Len(lab)))
             IN  /\ Len(r) >= 5
                 /\ SubSeq(r, 1, 2) = Open2
                 /\ SubSeq(r, Len(r) - 1, Len(r)) = Close2
                 /\ \A k \in 3..Len(r) - 2 : r[k] \in Digit

\* The lines the scan of the metadata reads: up to the first Keywords line.
ClaimKeywordsAt(lines) == {i \in 1..Len(lines) : StartsWith(lines[i], LabelKeywords)}

ClaimScanned(lines) ==
    IF ClaimKeywordsAt(lines) = {} THEN 1..Len(lines)
    ELSE 1..Min(ClaimKeywordsAt(lines))

ClaimLabel(k) ==
    IF k = "title" THEN LabelTitle ELSE IF k = "date" THEN LabelDate ELSE LabelKeywords

\* Where the scan meets the label of key k.
ClaimSeen(lines, k) ==
    {i \in ClaimScanned(lines) : StartsWith(lines[i], ClaimLabel(k))}

ClaimScanKeys(lines) == {k \in {"title", "date", "tags"} : ClaimSeen(lines, k) # {}}

\* The scanned keys in the order in which the scan first meets them.
ClaimScanOrder(lines) ==
    LET ks == ClaimScanKeys(lines)
    IN  CHOOSE s \in [1..Cardinality(ks) -> ks] :
          \A i, j \in 1..Cardinality(ks) :
             i < j => Min(ClaimSeen(lines, s[i])) < Min(ClaimSeen(lines, s[j]))

\* The value of a labelled line: what follows the label, trimmed.
ClaimValue(line, k) == strip(Drop(line, Len(ClaimLabel(k))))

(***************************************************************************)
(* Properties of convert_note, checked under SpecNote.                     *)
(***************************************************************************)
\* The .md entries of the input directory whose name begins with the id.
ClaimTargets(link_id) ==
    {n \in Range(listing) : EndsWith(n, DotMd) /\ StartsWith(n, link_id)}

\* What the claim lets an occurrence of the id become: the aliased link to
\* one of the targets, or the token itself when there is no target.
ClaimLinkForms(link_id) ==
    IF ClaimTargets(link_id) = {} THEN {Open2 \o link_id \o Close2}
    ELSE {Open2 \o SubSeq(n, 1, Len(n) - Len(DotMd)) \o <<"|">> \o link_id \o Close2 :
             n \in ClaimTargets(link_id)}

\* The texts the claim lets t become from position i on.
RECURSIVE ClaimRewritings(_, _)
ClaimRewritings(t, i) ==
    LET hits == {j \in i..Len(t) : ClaimTokenAt(t, j)}
    IN  IF hits = {} THEN {SubSeq(t, i, Len(t))}
        ELSE LET j == Min(hits)
             IN  {SubSeq(t, i, j - 1) \o r \o rest :
                     r \in ClaimLinkForms(SubSeq(t, j + 2, j + 1 + IdLen)),
                     rest \in ClaimRewritings(t, j + IdLen + 4)}

\* C1: every double-bracket token of exactly 12 digits in the body becomes
\* the aliased link to a .md file of the input directory whose name begins
\* with the id, when there is one, and stays as it is when there is none;
\* every other token stays as it is.
C1_LinksRewritten ==
    pc = "written" =>
        OutBody(Written) \in ClaimRewritings(Join(strip_backlinks(body)), 1)

\* C3: a body line is dropped exactly when, trimmed, it is a backlink label
\* followed by a bracketed run of digits; every other line stays, a line with
\* text after the brackets among them, and a dropped line leaves no empty
\* line behind: the lines of the output are the kept lines, one for one.
C3_BacklinkLinesDropped ==
    pc = "written" =>
        LET kept == SelectSeq(body, LAMBDA l : ~ClaimBacklink(l))
        IN  splitlines(OutBody(Written))
              = [i \in 1..Len(kept) |-> SubLinks(kept[i], 1, listing)]

\* A note whose body holds the backlink line and the line with extra text was
\* written, and its output has one line less than its body.
C3_Witness ==
    /\ pc = "written"
    /\ \E i, j \in 1..Len(body) :
          /\ body[i] = L_Backlinks \o LF
          /\ body[j] = L_BacklinksExtra \o LF
    /\ Len(splitlines(OutBody(Written))) = Len(body) - 1

\* The lines of the bytes of a file, each with the terminator it has on disk.
ClaimRawLineEnd(b, i) == Min({j \in i..Len(b) : b[j] = "\n"} \cup {Len(b)})

RECURSIVE ClaimRawLines(_, _)
ClaimRawLines(b, i) ==
    IF i > Len(b) THEN << >>
    ELSE LET e == ClaimRawLineEnd(b, i)
         IN  <<SubSeq(b, i, e)>> \o ClaimRawLines(b, e + 1)

\* The line holds p somewhere.
ClaimHolds(line, p) == \E j \in 1..Len(line) : At(line, j, p)

\* A line with no recognized label, no backlink pattern and no bracketed id
\* of 12 digits.
ClaimPlain(line) ==
    /\ \A k \in {"title", "date", "tags"} : ~ClaimHolds(line, ClaimLabel(k))
    /\ ~ClaimBacklink(line)
    /\ \A j \in 1..Len(line) : ~ClaimTokenAt(line, j)

\* s is a subsequence of t: its elements occur in t in the same order.
RECURSIVE ClaimSubseq(_, _)
ClaimSubseq(s, t) ==
    IF s = << >> THEN TRUE
    ELSE IF t = << >> THEN FALSE
    ELSE IF Head(s) = Head(t) THEN ClaimSubseq(Tail(s), Tail(t))
    ELSE ClaimSubseq(s, Tail(t))

\* C4: the plain lines of the body of the file, terminators included, are
\* found byte for byte and in their order in the output file.
C4_PlainLinesByteForByte ==
    pc = "written" =>
        LET raw   == ClaimRawLines(data[cur].bytes, 1)
            first == Drop(raw, IF ClaimKeywordsAt(raw) = {} THEN 0
                               ELSE Min(ClaimKeywordsAt(raw)))
        IN  ClaimSubseq(SelectSeq(first, ClaimPlain),
                        ClaimRawLines(OutBody(Written), 1))

\* C5 as stated: the keys of the header are the keys the scan found, then id,
\* then aliases, and nothing else.
C5_KeyOrderAsClaimed ==
    pc = "written" =>
        LET ks == HeaderKeys(Written)
            n  == Cardinality(ClaimScanKeys(ReadLines))
        IN  /\ Len(ks) = n + 2
            /\ {ks[i] : i \in 1..n} = ClaimScanKeys(ReadLines)
            /\ ks[n + 1] = "id"
            /\ ks[n + 2] = "aliases"

\* The header of the note whose first three lines are Title: Foo,
\* Date: 2024-01-01 and Keywords: #a #b.
ClaimExampleHeader ==
    <<Scalar("title", <<"F", "o", "o">>),
      Scalar("date", <<"2","0","2","4","-","0","1","-","0","1">>),
      List("tags", << <<"a">>, <<"b">> >>),
      Scalar("id", ClaimId(cur)),
      List("aliases", <<ClaimId(cur)>>)>>

ClaimIsExample ==
    /\ Len(ReadLines) >= 3
    /\ SubSeq(ReadLines, 1, 3) = <<L_Title \o LF, L_Date \o LF, L_Keywords \o LF>>

\* C5 (amended): the keys of the header are the keys the scan found, in the
\* order in which it first met them, then id, then title when no Title line
\* was scanned (the title then comes from the file name), then aliases; the
\* note of the three example lines has the header title, date, tags, id,
\* aliases with the values of the example.
C5_KeyOrder ==
    pc = "written" =>
        /\ HeaderKeys(Written)
             = ClaimScanOrder(ReadLines) \o <<"id">>
               \o (IF "title" \in ClaimScanKeys(ReadLines) THEN << >> ELSE <<"title">>)
               \o <<"aliases">>
        /\ ClaimIsExample => HeaderEntries(Written) = ClaimExampleHeader

\* The note of the three example lines was written.
C5_Witness ==
    /\ pc = "written"
    /\ ClaimIsExample
    /\ HeaderKeys(Written) = <<"title", "date", "tags", "id", "aliases">>

\* C6: the header of a converted note "<id> <title>.md" has the id of the
\* file name as id, the list of that one id as aliases, and as title the
\* value of the Title line the scan read last, or the title of the file name
\* when the scan read no Title line.
C6_IdAliasesTitle ==
    pc = "written" =>
        LET seen == ClaimSeen(ReadLines, "title")
        IN  /\ ClaimConforming(cur)
            /\ HeaderValue(Written, "id") = <<ClaimId(cur)>>
            /\ DictGet(HeaderEntries(Written), "aliases") = List("aliases", <<ClaimId(cur)>>)
            /\ HeaderValue(Written, "title")
                 = IF seen = {} THEN <<ClaimTitle(cur)>>
                   ELSE <<ClaimValue(ReadLines[Max(seen)], "title")>>

\* A note with a scanned Title line was written under a file name whose
\* title differs from it.
C6_Witness ==
    /\ pc = "written"
    /\ ClaimSeen(ReadLines, "title") # {}
    /\ HeaderValue(Written, "title") = << <<"F", "o", "o">> >>
    /\ ClaimTitle(cur) # <<"F", "o", "o">>
    /\ HeaderValue(Written, "id") = <<ID_A>>

\* C9: parse_metadata returns as body the lines after the first Keywords
\* line, and reads title and date from the lines before it only; without a
\* Keywords line the body is every line, title and date are still read, and
\* the Title and Date lines then stand in the header and in the output body.
C9_ScanStopsAtKeywords ==
    pc \in {"parsed", "written"} =>
        LET lines == ReadLines
            kw    == ClaimKeywordsAt(lines)
        IN  /\ body = IF kw = {} THEN lines ELSE Drop(lines, Min(kw))
            /\ \A k \in {"title", "date"} :
                  /\ HasKey(md, k) <=> ClaimSeen(lines, k) # {}
                  /\ HasKey(md, k) =>
                        DictGet(md, k).val
                          = <<ClaimValue(lines[Max(ClaimSeen(lines, k))], k)>>
            /\ HasKey(md, "tags") <=> kw # {}
            /\ (pc = "written" /\ kw = {}) =>
                  \A k \in {"title", "date"} : \A i \in ClaimSeen(lines, k) :
                     /\ lines[i] \in Range(splitlines(OutBody(Written)))
                     /\ k \in Range(HeaderKeys(Written))

\* A note without a Keywords line and with a Title line was written: the
\* line is in its body and the title in its header.
C9_Witness ==
    /\ pc = "written"
    /\ ClaimKeywordsAt(ReadLines) = {}
    /\ L_Title \o LF \in Range(body)
    /\ L_Title \o LF \in Range(splitlines(OutBody(Written)))
    /\ HeaderValue(Written, "title") = << <<"F", "o", "o">> >>

(***************************************************************************)
(* Properties of main, checked under Spec.                                 *)
(***************************************************************************)
\* The *.md entries of the input directory as it was when the run began.
ClaimNotes == {n \in Range(snap.in0.listing) : EndsWith(n, DotMd)}

\* The progress records of the run for the file of that name.
ClaimRecords(n) == {i \in 1..Len(log) : log[i][2] = n}

\* C2: when a run of main has returned, every *.md file of the input
\* directory has one file of its name in the output directory and one
\* progress record: a converted note when its stem is digits, blanks, rest,
\* and otherwise a copy of its bytes.
C2_OneOutputPerNote ==
    pc = "done" =>
        \A n \in ClaimNotes :
           /\ n \in DOMAIN outFiles
           /\ Cardinality(ClaimRecords(n)) = 1
           /\ \A i \in ClaimRecords(n) :
                 IF ClaimConforming(n)
                 THEN log[i][1] = "Converted" /\ outFiles[n].type = "note"
                 ELSE /\ log[i][1] = "Copied"
                      /\ outFiles[n].type = "raw"
                      /\ outFiles[n].text = snap.in0.data[n].bytes

\* C8: a file is copied as it is only when its name fails the filename
\* parser; a file whose conversion fails in any other way is not copied.
C8_CopyOnlyOnNamingError ==
    \A i \in 1..Len(log) : log[i][1] = "Copied" => ~ClaimConforming(log[i][2])

\* C10: a run of main leaves the input directory as it found it, wherever
\* the output path lies.
C10_InputReadOnly == InDir = snap.in0

====
